---- MODULE Spec2Model ----
(***************************************************************************)
(* MediaDL backend: the admission controller (DownloadSemaphore) over the  *)
(* shared store, and the download orchestration wrapper over the job       *)
(* records.                                                                *)
(*                                                                         *)
(* Store primitives (incr, decr, sadd, srem, lrem, set, get, smembers,     *)
(* lrange, hset, exists) are atomic; a call of the program is a sequence   *)
(* of such primitives, and calls of different processes interleave between *)
(* primitives.                                                             *)
(***************************************************************************)
EXTENDS Integers, Sequences, FiniteSets

\* ------------------------------------------------------------------------
\* Program constants and bounds
\* ------------------------------------------------------------------------

\* Config.MAX_CONCURRENT_DOWNLOADS (default of the environment variable)
MAX_CONCURRENT_DOWNLOADS == 2

\* acquire's default timeout_seconds
DEFAULT_TIMEOUT == 300

\* number of processes (threads) that call acquire / release
MaxProcs == 3

\* number of distinct job ids
MaxJobs == 3

Procs == 1..MaxProcs

Jobs == 1..MaxJobs

\* the values of timeout_seconds callers pass
Timeouts == {0, DEFAULT_TIMEOUT}

\* no job id
NoJob == MaxJobs + 1

\* Config.MAX_QUEUE_SIZE is read from the environment variable of the same
\* name (default 50); the model runs a deployment that sets it low enough
\* for the capacity to be reached with MaxJobs job ids
MAX_QUEUE_SIZE == 2

\* Config.MAX_RETRIES (default of the environment variable)
MAX_RETRIES == 3

\* the clock readings time.time() / datetime.now() can return
MaxNow == 1

\* max_iterations of event_stream, int(600 / 0.3) = 2000 in the program:
\* the number of polls after which a progress stream gives up
MaxIterations == 4

\* the number of polls after which event_stream takes a download that is
\* running at progress 0 for stalled, 100 in the program
StallIterations == 2

\* the number of calls of update_job an outside caller makes
MaxUpdates == 2

\* the largest limit list_jobs keeps (1000 in jobs.py), scaled
MaxListLimit == 2

\* the subscribers of progress streams
Subs == {"first", "later"}

VARIABLES
    \* --- the admission ledger in the store -------------------------------
    count,      \* key "download:semaphore:count" (an absent key reads as 0)
    active,     \* set "download:semaphore:active"
    queue,      \* list "download:queue"
    \* --- one acquire / release call per process --------------------------
    pc,         \* pc[p]: the store primitive process p executes next
    job,        \* job[p]: the job_id argument, while the call still reads it
    outcome,    \* outcome[p]: how p's last call ended
    \* --- history (not program state) -------------------------------------
    held,       \* held[p]: the job p was granted a slot for and has not released
    matched,    \* matched[p]: p's release in flight gives back a grant
    usage,      \* how the callers have used the ledger so far: 0 every
                \* release gave back a grant and no job id was acquired by
                \* two processes at a time, 1 some job id was, 2 some release
                \* had no grant to give back, 3 such a release decremented
                \* the counter without clamping
    \* --- the job records in the store -----------------------------------
    recs,       \* recs[j]: the hash "job:<j>", for the job ids that have one
    jobsList,   \* list "jobs:all", most recent first
    \* --- one background task per started job ----------------------------
    wpc,        \* wpc[j]: position of download_wrapper for job j
    now,        \* the wall clock, in seconds
    \* --- history (not program state) ------------------------------------
    calls,      \* calls[j]: the calls download_wrapper itself made for j
    issued,     \* number of job ids uuid.uuid4() has produced
    ret,        \* what the last call of update_job, can_retry,
                \* create_retry_job or delete_job_endpoint returned
    upd,        \* the last call of update_job made by a caller outside the
                \* program's own handlers, and the number of such calls
    \* --- the file system -------------------------------------------------
    disk,       \* the absolute paths of the regular files
    \* --- one event_stream generator per subscriber -----------------------
    stream      \* stream[s]: the job polled, the locals iteration and
                \* last_progress, the last event sent, how the stream ended

semVars == <<count, active, queue, pc, job, outcome,
             held, matched, usage>>

\* the file system, the subscribers and the outside callers
extVars == <<upd, disk, stream>>

orchVars == <<recs, jobsList, wpc, now, calls, issued, ret, extVars>>

vars == <<semVars, orchVars>>

\* ------------------------------------------------------------------------
\* Helpers
\* ------------------------------------------------------------------------

Max(a, b) == IF a >= b THEN a ELSE b

\* redis LREM key 0 value: remove every occurrence of value
Lrem(q, j) == SelectSeq(q, LAMBDA x: x # j)

\* processes that were granted a slot and have not released it
Holders == {p \in Procs: held[p] # NoJob}

Quiescent == \A p \in Procs: pc[p] = "idle"

\* every release so far gave back a grant of its caller
WellFormed == usage <= 1

\* and no job id was acquired by two processes at a time
DistinctIds == usage = 0

\* no release without a grant decremented the counter unclamped
NothingStolen == usage <= 2

\* ------------------------------------------------------------------------
\* DownloadSemaphore.acquire
\* ------------------------------------------------------------------------

WithinLimitOffByOne(c) == c <= MAX_CONCURRENT_DOWNLOADS + 1

\* `if count <= Config.MAX_CONCURRENT_DOWNLOADS`
WithinLimit(c) == c <= MAX_CONCURRENT_DOWNLOADS

\* acquire(job_id, timeout_seconds) is called by a process that holds no
\* slot; its first store primitive: count = redis.incr(count_key, 1), then
\* the limit test.  timeout_seconds is read only by the timeout test and,
\* above the limit, job_id only by the rpush; no path reaches either (see
\* AcquireLfrompop), so they are not kept.
AcquireIncr(p, j, t) ==
    /\ pc[p] = "idle"
    /\ held[p] = NoJob
    /\ count' = count + 1
    /\ IF WithinLimit(count + 1)
       THEN /\ pc' = [pc EXCEPT ![p] = "acq_sadd"]
            /\ job' = [job EXCEPT ![p] = j]
       ELSE /\ pc' = [pc EXCEPT ![p] = "acq_decr"]
            /\ job' = job
    /\ outcome' = [outcome EXCEPT ![p] = "none"]
    /\ usage' = IF \E q \in Procs \ {p}: held[q] = j \/ job[q] = j
                THEN Max(usage, 1) ELSE usage
    /\ UNCHANGED <<active, queue, held, matched, orchVars>>

\* redis.sadd(active_key, job_id)
AcquireSadd(p) ==
    /\ pc[p] = "acq_sadd"
    /\ active' = active \cup {job[p]}
    /\ pc' = [pc EXCEPT ![p] = "acq_lrem"]
    /\ UNCHANGED <<count, queue, job, outcome, held, matched, usage,
                   orchVars>>

\* redis.lrem(QUEUE_KEY, 0, job_id); return True
AcquireLrem(p) ==
    /\ pc[p] = "acq_lrem"
    /\ queue' = Lrem(queue, job[p])
    /\ outcome' = [outcome EXCEPT ![p] = "granted"]
    /\ held' = [held EXCEPT ![p] = job[p]]
    /\ pc' = [pc EXCEPT ![p] = "idle"]
    /\ job' = [job EXCEPT ![p] = NoJob]
    /\ UNCHANGED <<count, active, matched, usage, orchVars>>

\* redis.decr(count_key, 1): "we didn't get a slot"
AcquireDecr(p) ==
    /\ pc[p] = "acq_decr"
    /\ count' = count - 1
    /\ pc' = [pc EXCEPT ![p] = "acq_lfrompop"]
    /\ UNCHANGED <<active, queue, job, outcome, held, matched, usage,
                   orchVars>>

\* `if not redis.lfrompop(QUEUE_KEY, count=1, numtoremove=0)`: the store
\* client (redis.Redis, fakeredis.FakeRedis) has no attribute lfrompop, so
\* evaluating it raises AttributeError, which acquire does not catch.  The
\* rpush, the timeout test and the sleep after it are never reached.
AcquireLfrompop(p) ==
    /\ pc[p] = "acq_lfrompop"
    /\ outcome' = [outcome EXCEPT ![p] = "raised"]
    /\ pc' = [pc EXCEPT ![p] = "idle"]
    /\ UNCHANGED <<count, active, queue, job, held, matched, usage,
                   orchVars>>

\* ------------------------------------------------------------------------
\* DownloadSemaphore.release
\* ------------------------------------------------------------------------

ClampNeededOffByOne(c) == c < -1

\* `if count < 0`
ClampNeeded(c) == c < 0

\* release(job_id) is called, by the holder of the slot of job_id or by a
\* process that holds nothing (an unmatched release); its first store
\* primitive: redis.srem(active_key, job_id).  job_id is not read again.
ReleaseSrem(p, j) ==
    /\ pc[p] = "idle"
    /\ held[p] \in {NoJob, j}
    /\ active' = active \ {j}
    /\ pc' = [pc EXCEPT ![p] = "rel_decr"]
    /\ outcome' = [outcome EXCEPT ![p] = "none"]
    /\ matched' = [matched EXCEPT ![p] = (held[p] = j)]
    /\ held' = [held EXCEPT ![p] = NoJob]
    /\ usage' = IF held[p] = NoJob THEN Max(usage, 2) ELSE usage
    /\ UNCHANGED <<count, queue, job, orchVars>>

\* count = redis.decr(count_key, 1); `if count < 0` else return
ReleaseDecr(p) ==
    /\ pc[p] = "rel_decr"
    /\ count' = count - 1
    /\ usage' = IF ~matched[p] /\ ~ClampNeeded(count - 1) THEN 3 ELSE usage
    /\ IF ClampNeeded(count - 1)
       THEN /\ pc' = [pc EXCEPT ![p] = "rel_set"]
            /\ UNCHANGED <<outcome, matched>>
       ELSE /\ pc' = [pc EXCEPT ![p] = "idle"]
            /\ outcome' = [outcome EXCEPT ![p] = "released"]
            /\ matched' = [matched EXCEPT ![p] = FALSE]
    /\ UNCHANGED <<active, queue, job, held, orchVars>>

\* redis.set(count_key, 0); return
ReleaseSet(p) ==
    /\ pc[p] = "rel_set"
    /\ count' = 0
    /\ pc' = [pc EXCEPT ![p] = "idle"]
    /\ outcome' = [outcome EXCEPT ![p] = "released"]
    /\ matched' = [matched EXCEPT ![p] = FALSE]
    /\ UNCHANGED <<active, queue, job, held, usage,
                   orchVars>>

\* ------------------------------------------------------------------------
\* DownloadSemaphore.get_status
\* ------------------------------------------------------------------------

ActiveCountUnclamped(c) == c

\* max(0, int(redis.get(count_key) or 0))
ActiveCount(c) == Max(0, c)

\* max(0, Config.MAX_CONCURRENT_DOWNLOADS - active_count)
AvailableSlots(a) == Max(0, MAX_CONCURRENT_DOWNLOADS - a)

\* the dict get_status returns, from its three locals
StatusDict(active_count, active_jobs, queued_jobs) ==
    [active          |-> active_count,
     max             |-> MAX_CONCURRENT_DOWNLOADS,
     available_slots |-> AvailableSlots(active_count),
     queued          |-> Len(queued_jobs),
     active_jobs     |-> active_jobs,
     queued_jobs     |-> queued_jobs]

\* get_status(): a read-only query of the ledger.  active and
\* available_slots come from its one read of the counter, the other fields
\* from its reads of the set and of the list.
GetStatus == StatusDict(ActiveCount(count), active, queue)

\* ------------------------------------------------------------------------
\* Job records (app/services/jobs.py)
\* ------------------------------------------------------------------------

\* percentages the fetch executor passes, in hundredths of a percent
Percents == {0, 2550, 10000}

\* round(percent, 1): hundredths of a percent to tenths of a percent
Round1(h) == (h + 5) \div 10

\* int(time.time()): the clock as a number of seconds
EpochNow == <<"epoch", now>>

\* datetime.now().isoformat(): the clock as an ISO-8601 string
IsoNow == <<"iso", now>>

\* create_job: defaults merged with the caller's job_data (the caller's
\* fields take precedence), hset, lpush on the recency index.  An empty
\* parent or child link is NoJob.
CreateJob(r, j, job_data) ==
    LET defaults == [created_at |-> EpochNow, updated_at |-> EpochNow,
                     status |-> "queued", progress |-> 0, file_name |-> "",
                     file_path |-> <<>>, error |-> "", retry_count |-> 0,
                     parent_job_id |-> NoJob, child_job_id |-> NoJob]
        final_data == [f \in DOMAIN defaults \cup DOMAIN job_data |->
                         IF f \in DOMAIN job_data THEN job_data[f]
                         ELSE defaults[f]]
    IN [k \in DOMAIN r \cup {j} |-> IF k = j THEN final_data ELSE r[k]]

UpdateJobUpsert(r, j, updates) ==
    [k \in DOMAIN r \cup {j} |->
       [f \in (IF k \in DOMAIN r THEN DOMAIN r[k] ELSE {})
               \cup (IF k = j THEN DOMAIN updates \cup {"updated_at"} ELSE {}) |->
          IF k = j /\ f = "updated_at" THEN EpochNow
          ELSE IF k = j /\ f \in DOMAIN updates THEN updates[f] ELSE r[k][f]]]

UpdateJobReplace(r, j, updates) ==
    IF j \notin DOMAIN r THEN r
    ELSE [r EXCEPT ![j] =
            [f \in DOMAIN updates \cup {"updated_at"} |->
               IF f = "updated_at" THEN EpochNow ELSE updates[f]]]

UpdateJobIncrBy(r, j, updates) ==
    IF j \notin DOMAIN r THEN r
    ELSE [r EXCEPT ![j] =
            [f \in DOMAIN @ \cup DOMAIN updates \cup {"updated_at"} |->
               IF f = "updated_at" THEN EpochNow
               ELSE IF f = "progress" /\ f \in DOMAIN updates
               THEN @[f] + updates[f]
               ELSE IF f \in DOMAIN updates THEN updates[f] ELSE @[f]]]

\* update_job: False and no write if the record does not exist, else hset of
\* the named fields and of updated_at
UpdateJob(r, j, updates) ==
    IF j \notin DOMAIN r THEN r
    ELSE [r EXCEPT ![j] =
            [f \in DOMAIN @ \cup DOMAIN updates \cup {"updated_at"} |->
               IF f = "updated_at" THEN EpochNow
               ELSE IF f \in DOMAIN updates THEN updates[f] ELSE @[f]]]

\* what update_job(j, ...) returns on the records r
UpdateJobReturns(r, j) == j \in DOMAIN r

\* delete_job: delete of the hash, lrem on the recency index
DeleteJob(r, j) == [k \in DOMAIN r \ {j} |-> r[k]]

\* the value of ret after a call of update_job(j, ...) on the records r
UpdateJobRet(r, j) ==
    [op |-> "update_job", id |-> j, ok |-> UpdateJobReturns(r, j), new |-> NoJob]

\* ------------------------------------------------------------------------
\* Start endpoints (main.py) and download_wrapper (download_orchestrator.py)
\* ------------------------------------------------------------------------

\* A path is the sequence of the pieces of its text: "/" and pieces of
\* names, so that the text of one path is a prefix of the text of another
\* exactly when its sequence is a prefix of the other's.

\* Config.DOWNLOAD_DIR
DOWNLOAD_DIR == <<"/", "app", "/", "downloads">>

\* os.getcwd()
Cwd == <<"/", "app">>

RECURSIVE SplitPath(_)
\* path.split("/")
SplitPath(p) ==
    IF p = <<>> THEN << <<>> >>
    ELSE LET rest == SplitPath(Tail(p))
         IN IF Head(p) = "/" THEN << <<>> >> \o rest
            ELSE << <<Head(p)>> \o Head(rest) >> \o Tail(rest)

RECURSIVE Collapse(_, _)
\* os.path.normpath on the components: empty and "." components are
\* dropped, ".." removes the component before it
Collapse(comps, acc) ==
    IF comps = <<>> THEN acc
    ELSE LET c == Head(comps)
         IN IF c = <<>> \/ c = <<".">> THEN Collapse(Tail(comps), acc)
            ELSE IF c = <<"..">>
            THEN Collapse(Tail(comps),
                          IF acc = <<>> THEN acc ELSE SubSeq(acc, 1, Len(acc) - 1))
            ELSE Collapse(Tail(comps), Append(acc, c))

RECURSIVE JoinPath(_)
\* "/" + "/".join(components)
JoinPath(comps) ==
    IF comps = <<>> THEN <<>>
    ELSE <<"/">> \o Head(comps) \o JoinPath(Tail(comps))

\* os.path.abspath(path): normpath(join(os.getcwd(), path))
AbsPath(p) ==
    LET full == IF p # <<>> /\ Head(p) = "/" THEN p ELSE Cwd \o <<"/">> \o p
        comps == Collapse(SplitPath(full), <<>>)
    IN IF comps = <<>> THEN <<"/">> ELSE JoinPath(comps)

\* text.startswith(prefix)
StartsWith(text, prefix) ==
    Len(prefix) <= Len(text) /\ SubSeq(text, 1, Len(prefix)) = prefix

\* safe_delete_file(file_path) on the files d, where os.remove succeeds iff
\* removable: the files left
SafeDeleteFileDisk(d, file_path, removable) ==
    IF file_path = <<>> \/ AbsPath(file_path) \notin d THEN d
    ELSE IF ~StartsWith(AbsPath(file_path), AbsPath(DOWNLOAD_DIR)) THEN d
    ELSE IF removable THEN d \ {AbsPath(file_path)}
    ELSE d

\* safe_delete_file(file_path): what it returns
SafeDeleteFileReturns(d, file_path, removable) ==
    IF file_path = <<>> \/ AbsPath(file_path) \notin d THEN TRUE
    ELSE IF ~StartsWith(AbsPath(file_path), AbsPath(DOWNLOAD_DIR)) THEN FALSE
    ELSE removable

\* the name of the output file of a media type
FileOf(media_type) == IF media_type = "video" THEN "video_x.mp4" ELSE "audio_x.webm"

\* the output file find_latest_download finds for a media type:
\* os.path.join(downloads_dir, name)
PathOf(media_type) == DOWNLOAD_DIR \o <<"/", FileOf(media_type)>>

\* the media_type download_wrapper was created with: the type the start
\* endpoint wrote to the job's record ("video" stands in when the record was
\* deleted, where the file's name is not written anywhere)
MediaTypeOf(j) == IF j \in DOMAIN recs THEN recs[j].type ELSE "video"

\* the quality a request for a media type asks for
QualityOf(media_type) == IF media_type = "video" THEN "720" ELSE "192"

\* job_id = str(uuid.uuid4()): an id no job has had
FreshJob(j) == j = issued + 1 /\ j \in Jobs

\* start_video / start_audio with valid inputs: create_job(job_data), then
\* background_tasks.add_task(download_wrapper).  Neither endpoint calls
\* check_queue_status or any other method of the admission controller.
StartJob(j, media_type) ==
    /\ FreshJob(j)
    /\ issued' = issued + 1
    /\ recs' = CreateJob(recs, j,
                 [type |-> media_type, quality |-> QualityOf(media_type),
                  status |-> "queued", progress |-> 0,
                  file_name |-> "", file_path |-> <<>>, error |-> "",
                  created_at |-> IsoNow])
    /\ jobsList' = <<j>> \o jobsList
    /\ wpc' = [wpc EXCEPT ![j] = "scheduled"]
    /\ UNCHANGED <<now, calls, ret, semVars, extVars>>

StartVideo(j) == StartJob(j, "video")

StartAudio(j) == StartJob(j, "audio")

\* download_wrapper starts: update_job(job_id, status="running", progress=0),
\* then the fetch of the media type is called
WrapperBegin(j) ==
    /\ wpc[j] = "scheduled"
    /\ recs' = UpdateJob(recs, j, [status |-> "running", progress |-> 0])
    /\ ret' = UpdateJobRet(recs, j)
    /\ calls' = [calls EXCEPT ![j] = @ \o <<"update_job", "download">>]
    /\ wpc' = [wpc EXCEPT ![j] = "downloading"]
    /\ UNCHANGED <<jobsList, now, issued, semVars, extVars>>

\* the fetch calls progress_cb(percent):
\* update_job(job_id, progress=round(percent, 1), status="running")
FetchProgress(j, h) ==
    /\ wpc[j] = "downloading"
    /\ recs' = UpdateJob(recs, j, [progress |-> Round1(h), status |-> "running"])
    /\ ret' = UpdateJobRet(recs, j)
    /\ UNCHANGED <<jobsList, wpc, now, calls, issued, semVars, extVars>>

\* the fetch raises: except Exception: error_cb("Download failed: ...")
FetchRaises(j) ==
    /\ wpc[j] = "downloading"
    /\ recs' = UpdateJob(recs, j, [status |-> "error", error |-> "Download failed"])
    /\ ret' = UpdateJobRet(recs, j)
    /\ calls' = [calls EXCEPT ![j] = Append(@, "error_cb")]
    /\ wpc' = [wpc EXCEPT ![j] = "finished"]
    /\ UNCHANGED <<jobsList, now, issued, semVars, extVars>>

\* the fetch returns: file_path = find_latest_download(media_type) is next
FetchReturns(j) ==
    /\ wpc[j] = "downloading"
    /\ wpc' = [wpc EXCEPT ![j] = "locating"]
    /\ calls' = [calls EXCEPT ![j] = Append(@, "find_latest_download")]
    /\ UNCHANGED <<recs, jobsList, now, issued, ret, semVars, extVars>>

\* a file is found, the one the fetch wrote:
\* update_job(status="done", progress=100, file_name, file_path)
LocateFound(j, media_type) ==
    /\ wpc[j] = "locating"
    /\ recs' = UpdateJob(recs, j,
                 [status |-> "done", progress |-> 1000,
                  file_name |-> FileOf(media_type),
                  file_path |-> PathOf(media_type)])
    /\ ret' = UpdateJobRet(recs, j)
    /\ calls' = [calls EXCEPT ![j] = Append(@, "update_job")]
    /\ wpc' = [wpc EXCEPT ![j] = "finished"]
    /\ disk' = disk \cup {PathOf(media_type)}
    /\ UNCHANGED <<jobsList, now, issued, semVars, upd, stream>>

LocateNoneSilent(j) ==
    /\ wpc[j] = "locating"
    /\ wpc' = [wpc EXCEPT ![j] = "finished"]
    /\ UNCHANGED <<recs, jobsList, now, calls, issued, ret, semVars, extVars>>

\* no file is found: error_cb("Download completed but output file not found")
LocateNone(j) ==
    /\ wpc[j] = "locating"
    /\ recs' = UpdateJob(recs, j,
                 [status |-> "error", error |-> "output file not found"])
    /\ ret' = UpdateJobRet(recs, j)
    /\ calls' = [calls EXCEPT ![j] = Append(@, "error_cb")]
    /\ wpc' = [wpc EXCEPT ![j] = "finished"]
    /\ UNCHANGED <<jobsList, now, issued, semVars, extVars>>

\* ------------------------------------------------------------------------
\* The callbacks when the store fails (download_orchestrator.py)
\* ------------------------------------------------------------------------

ProgressCbPropagates(write_raises) == IF write_raises THEN "raised" ELSE "returned"

\* how progress_cb ends when its update_job raises or not:
\* `try: update_job(...) except Exception as e: logger.warning(...)`
ProgressCbOutcome(write_raises) == "returned"

\* how error_cb ends when its update_job raises or not:
\* `try: update_job(...) except Exception as e: logger.error(...)`
ErrorCbOutcome(write_raises) == "returned"

\* the value of ret after a callback of job j whose update_job raised
CallbackRet(name, j, cb_outcome) ==
    [op |-> name, id |-> j, ok |-> cb_outcome = "returned", new |-> NoJob]

\* the fetch calls progress_cb(percent) and the store fails in update_job:
\* nothing is written; the fetch goes on, also if the callback raises (the
\* fetch ignores what its callback raises)
ProgressCbWriteFails(j) ==
    /\ wpc[j] = "downloading"
    /\ ret' = CallbackRet("progress_cb", j, ProgressCbOutcome(TRUE))
    /\ UNCHANGED <<recs, jobsList, wpc, now, calls, issued, semVars, extVars>>

\* download_wrapper calls error_cb (the fetch raised, or no file is found)
\* and the store fails in update_job: nothing is written, download_wrapper
\* ends
ErrorCbWriteFails(j) ==
    /\ wpc[j] \in {"downloading", "locating"}
    /\ ret' = CallbackRet("error_cb", j, ErrorCbOutcome(TRUE))
    /\ calls' = [calls EXCEPT ![j] = Append(@, "error_cb")]
    /\ wpc' = [wpc EXCEPT ![j] = "finished"]
    /\ UNCHANGED <<recs, jobsList, now, issued, semVars, extVars>>

\* ------------------------------------------------------------------------
\* progress_stream.event_stream (main.py): the stall guard
\* ------------------------------------------------------------------------

\* a tick of a subscriber of job j after its 100th: the record exists, its
\* error is empty (else the stream ended at the error test), its status is
\* running and its progress is 0:
\* update_job(job_id, status="error", error="Timeout: no progress")
StallGuard(j) ==
    /\ j \in DOMAIN recs
    /\ recs[j].error = ""
    /\ recs[j].status = "running"
    /\ recs[j].progress = 0
    /\ recs' = UpdateJob(recs, j, [status |-> "error", error |-> "Timeout: no progress"])
    /\ ret' = UpdateJobRet(recs, j)
    /\ UNCHANGED <<jobsList, wpc, now, calls, issued, semVars, extVars>>

\* the locals of an event_stream generator that has not been created
NoStream ==
    [job |-> NoJob, iteration |-> 0, last_progress |-> -1, last |-> <<>>,
     state |-> "none", stop |-> "", events |-> <<>>, idle |-> 0]

\* f"data:{progress_data}\n\n", with "|file_name" when the record has a
\* file_name and its progress is at least 100
ProgressEvent(progress, file_name) ==
    <<"data", progress, IF file_name # "" /\ progress >= 1000 THEN file_name ELSE "">>

\* f"data:ERROR:{error_msg}\n\n"
ErrorEvent(error_msg) == <<"data:ERROR", error_msg>>

\* `if job_status in ("done", "error"): break`
StreamTerminal(st) == st \in {"done", "error"}

StallWindowNever(iteration) == FALSE

\* `iteration > 100`, with the scaled window
StallWindowPassed(iteration) == iteration > StallIterations

WithinCeilingAlways(iteration) == TRUE

\* `while iteration < max_iterations`
WithinCeiling(iteration) == iteration < MaxIterations

\* `if iteration >= max_iterations`, after the loop
CeilingReached(iteration) == iteration >= MaxIterations

\* GET /progress/{job_id}: a new event_stream generator for job j
Subscribe(s, j) ==
    /\ stream[s].state = "none"
    /\ stream' = [stream EXCEPT ![s] =
                    [job |-> j, iteration |-> 0, last_progress |-> -1,
                     last |-> <<>>, state |-> "polling", stop |-> "",
                     events |-> <<>>, idle |-> 0]]
    /\ UNCHANGED <<recs, jobsList, wpc, now, calls, issued, ret, upd, disk, semVars>>

ProgressChangedAlways(current_progress, last_progress) == TRUE

\* `if current_progress != last_progress`
ProgressChanged(current_progress, last_progress) ==
    current_progress # last_progress

\* how one pass of the loop body ends on the record rec (absent: found is
\* FALSE) at the given iteration: the reason of the break ("" when the pass
\* ends in the sleep), the last event sent so far and the events the pass
\* has sent, in order
PollOutcome(found, rec, iteration, loc) ==
    IF ~found
    THEN [stop |-> "not_found", last |-> ErrorEvent("Job not found"),
          last_progress |-> loc.last_progress,
          events |-> <<ErrorEvent("Job not found")>>]
    ELSE LET changed == ProgressChanged(rec.progress, loc.last_progress)
             sent == IF changed
                     THEN ProgressEvent(rec.progress, rec.file_name)
                     ELSE loc.last
             events == IF changed
                       THEN <<ProgressEvent(rec.progress, rec.file_name)>>
                       ELSE <<>>
         IN IF rec.error # ""
            THEN [stop |-> "error", last |-> ErrorEvent(rec.error),
                  last_progress |-> rec.progress,
                  events |-> events \o <<ErrorEvent(rec.error)>>]
            ELSE IF StreamTerminal(rec.status)
            THEN [stop |-> "terminal", last |-> sent,
                  last_progress |-> rec.progress, events |-> events]
            ELSE IF rec.status = "running" /\ StallWindowPassed(iteration)
                    /\ rec.progress = 0
            THEN [stop |-> "stalled",
                  last |-> ErrorEvent("Download timed out (no progress)"),
                  last_progress |-> rec.progress,
                  events |-> events
                      \o <<ErrorEvent("Download timed out (no progress)")>>]
            ELSE [stop |-> "", last |-> sent, last_progress |-> rec.progress,
                  events |-> events]

\* one pass of the loop of event_stream for subscriber s: iteration += 1,
\* get_job, the events, the breaks, the write of the stall guard; and, when
\* the loop ends with it, the test after the loop that sends the timeout.
\* events holds what the pass sent; idle counts the passes in a row, this
\* one included, that read the record running with progress 0 (history).
StreamTick(s) ==
    /\ stream[s].state = "polling"
    /\ WithinCeiling(stream[s].iteration)
    /\ LET j == stream[s].job
           iteration == stream[s].iteration + 1
           found == j \in DOMAIN recs
           out == PollOutcome(found, IF found THEN recs[j] ELSE <<>>,
                              iteration, stream[s])
           ends == out.stop # "" \/ ~WithinCeiling(iteration)
       IN /\ stream' = [stream EXCEPT ![s] =
                 [job |-> j, iteration |-> iteration,
                  last_progress |-> out.last_progress,
                  last |-> IF ends /\ CeilingReached(iteration)
                           THEN ErrorEvent("Timeout") ELSE out.last,
                  state |-> IF ends THEN "closed" ELSE "polling",
                  stop |-> IF out.stop # "" THEN out.stop
                           ELSE IF ends THEN "ceiling" ELSE "",
                  events |-> IF ends /\ CeilingReached(iteration)
                             THEN out.events \o <<ErrorEvent("Timeout")>>
                             ELSE out.events,
                  idle |-> IF found /\ recs[j].status = "running"
                              /\ recs[j].progress = 0
                           THEN stream[s].idle + 1 ELSE 0]]
          /\ IF out.stop = "stalled"
             THEN /\ recs' = UpdateJob(recs, j, [status |-> "error",
                                                 error |-> "Timeout: no progress"])
                  /\ ret' = UpdateJobRet(recs, j)
             ELSE UNCHANGED <<recs, ret>>
    /\ UNCHANGED <<jobsList, wpc, now, calls, issued, upd, disk, semVars>>

\* the client disconnects: GeneratorExit at a yield or in the sleep
Disconnect(s) ==
    /\ stream[s].state = "polling"
    /\ stream' = [stream EXCEPT ![s].state = "closed", ![s].stop = "disconnected"]
    /\ UNCHANGED <<recs, jobsList, wpc, now, calls, issued, ret, upd, disk, semVars>>

\* ------------------------------------------------------------------------
\* delete_job_endpoint (main.py)
\* ------------------------------------------------------------------------

DeletableAlways(st) == TRUE

\* `if job.get("status") == "running": return {"error": ...}`
Deletable(st) == st # "running"

\* job.get(f): the field f of the record, None (given as the value none)
\* when the record has no such field
GetField(rec, f, none) == IF f \in DOMAIN rec THEN rec[f] ELSE none

\* the value of ret after delete_job_endpoint(j): ok iff the response is
\* {"status": "deleted", "job_id": j}
DeleteRet(j, deleted) ==
    [op |-> "delete_job_endpoint", id |-> j, ok |-> deleted, new |-> NoJob]

\* DELETE /api/job/{job_id}: "Job not found" without a record, "Cannot
\* delete a running job" in status running; else safe_delete_file(file_path)
\* if the record has a file_path (what it returns is not read), then
\* delete_job(job_id) and the response "deleted"
DeleteJobEndpoint(j) ==
    /\ IF j \notin DOMAIN recs
       THEN /\ ret' = DeleteRet(j, FALSE)
            /\ UNCHANGED <<recs, jobsList, disk>>
       ELSE IF ~Deletable(GetField(recs[j], "status", ""))
       THEN /\ ret' = DeleteRet(j, FALSE)
            /\ UNCHANGED <<recs, jobsList, disk>>
       ELSE /\ \E removable \in BOOLEAN:
                 disk' = SafeDeleteFileDisk(disk,
                             GetField(recs[j], "file_path", <<>>), removable)
            /\ recs' = DeleteJob(recs, j)
            /\ jobsList' = Lrem(jobsList, j)
            /\ ret' = DeleteRet(j, TRUE)
    /\ UNCHANGED <<wpc, now, calls, issued, semVars, upd, stream>>

\* ------------------------------------------------------------------------
\* RetryManager (app/services/retry.py) and retry_job (app/api/history.py)
\* ------------------------------------------------------------------------

RetryBudgetSpentOffByOne(c) == c > MAX_RETRIES

\* `if retry_count >= Config.MAX_RETRIES`
RetryBudgetSpent(c) == c >= MAX_RETRIES

RetryableStatusErrorOnly(st) == st = "error"

\* `job.get("status") in ("error", "cancelled")`
RetryableStatus(st) == st \in {"error", "cancelled"}

\* can_retry(job_id), on the records r
CanRetry(r, j) ==
    IF j \notin DOMAIN r THEN FALSE
    ELSE IF ~RetryableStatus(r[j].status) THEN FALSE
    ELSE IF RetryBudgetSpent(r[j].retry_count) THEN FALSE
    ELSE TRUE

RetryJobDataSameCount(o, orig) ==
    [type |-> orig.type, quality |-> orig.quality,
     status |-> "queued", progress |-> 0,
     retry_count |-> orig.retry_count, parent_job_id |-> o,
     file_name |-> "", file_path |-> <<>>, error |-> ""]

\* the job_data create_retry_job builds for the retry of the record orig of
\* id o (new_params is None)
RetryJobData(o, orig) ==
    [type |-> orig.type, quality |-> orig.quality,
     status |-> "queued", progress |-> 0,
     retry_count |-> orig.retry_count + 1, parent_job_id |-> o,
     file_name |-> "", file_path |-> <<>>, error |-> ""]

RetryLinkResets(n) == [child_job_id |-> n, status |-> "queued", error |-> ""]

\* the fields create_retry_job writes to the original record:
\* update_job(original_job_id, child_job_id=new_job_id)
RetryLink(n) == [child_job_id |-> n]

\* RetryManager.create_retry_job(original_job_id): None without a record or
\* with the retry budget spent; else create_job of the retry under a fresh
\* id, update_job(original_job_id, child_job_id=new_job_id), the new id
CreateRetryJob(j) ==
    /\ IF j \notin DOMAIN recs \/ RetryBudgetSpent(recs[j].retry_count)
       THEN /\ ret' = [op |-> "create_retry_job", id |-> j, ok |-> FALSE,
                       new |-> NoJob]
            /\ UNCHANGED <<recs, jobsList, issued>>
       ELSE \E n \in Jobs:
            /\ FreshJob(n)
            /\ issued' = issued + 1
            /\ recs' = UpdateJob(CreateJob(recs, n, RetryJobData(j, recs[j])),
                                 j, RetryLink(n))
            /\ jobsList' = <<n>> \o jobsList
            /\ ret' = [op |-> "create_retry_job", id |-> j, ok |-> TRUE,
                       new |-> n]
    /\ UNCHANGED <<wpc, now, calls, semVars, extVars>>

\* the request parameters of a record that the model keeps
RequestFields == {"type", "quality"}

\* the new_params a caller of create_retry_job passes: non-empty dicts
Overrides ==
    {[quality |-> "1080"],
     [type |-> "audio"],
     [type |-> "audio", quality |-> "1080"]}

\* the job_data create_retry_job builds with a non-empty new_params:
\* `new_params.get(k) if new_params else original_job.get(k)` for each
\* request parameter k, where dict.get gives None for an absent key
RetryJobDataWith(o, orig, new_params) ==
    [f \in DOMAIN RetryJobData(o, orig) |->
       IF f \in RequestFields
       THEN IF f \in DOMAIN new_params THEN new_params[f] ELSE "None"
       ELSE RetryJobData(o, orig)[f]]

\* RetryManager.create_retry_job(original_job_id, new_params) with a
\* non-empty new_params.  With a None in job_data, hset of the store client
\* raises DataError before anything is written, or, in a client that
\* formats the value, writes the text "None": stored tells which.
CreateRetryJobWith(j, new_params, stored) ==
    /\ IF j \notin DOMAIN recs \/ RetryBudgetSpent(recs[j].retry_count)
       THEN /\ ret' = [op |-> "create_retry_job", id |-> j, ok |-> FALSE,
                       new |-> NoJob]
            /\ UNCHANGED <<recs, jobsList, issued>>
       ELSE \E n \in Jobs:
            /\ FreshJob(n)
            /\ issued' = issued + 1
            /\ LET job_data == RetryJobDataWith(j, recs[j], new_params)
                   has_none == \E f \in RequestFields: job_data[f] = "None"
               IN IF has_none /\ ~stored
                  THEN /\ ret' = [op |-> "create_retry_job raised", id |-> j,
                                  ok |-> FALSE, new |-> NoJob]
                       /\ UNCHANGED <<recs, jobsList>>
                  ELSE /\ recs' = UpdateJob(CreateJob(recs, n, job_data),
                                            j, RetryLink(n))
                       /\ jobsList' = <<n>> \o jobsList
                       /\ ret' = [op |-> "create_retry_job", id |-> j,
                                  ok |-> TRUE, new |-> n]
    /\ UNCHANGED <<wpc, now, calls, semVars, extVars>>

\* POST /api/history/{job_id}/retry: "Job cannot be retried" unless
\* can_retry(job_id), else create_retry_job(job_id)
RetryJob(j) ==
    IF CanRetry(recs, j)
    THEN CreateRetryJob(j)
    ELSE /\ ret' = [op |-> "can_retry", id |-> j, ok |-> FALSE, new |-> NoJob]
         /\ UNCHANGED <<recs, jobsList, wpc, now, calls, issued, semVars, extVars>>

\* RetryManager.can_retry(job_id) called by itself (as get_retry_info does)
CanRetryCall(j) ==
    /\ ret' = [op |-> "can_retry", id |-> j, ok |-> CanRetry(recs, j),
               new |-> NoJob]
    /\ UNCHANGED <<recs, jobsList, wpc, now, calls, issued, semVars, extVars>>

RECURSIVE ChainBack(_, _)
\* get_retry_chain, "trace back to original": while the current record exists
\* and has a parent, the parent's id is inserted at the front and the parent
\* is read
ChainBack(r, j) ==
    IF j \in DOMAIN r /\ r[j].parent_job_id # NoJob
    THEN ChainBack(r, r[j].parent_job_id) \o <<r[j].parent_job_id>>
    ELSE <<>>

RECURSIVE ChainForward(_, _)
\* get_retry_chain, "trace forward to retries": while the current record
\* exists and has a child, the child's id is appended and the child is read
ChainForward(r, j) ==
    IF j \in DOMAIN r /\ r[j].child_job_id # NoJob
    THEN <<r[j].child_job_id>> \o ChainForward(r, r[j].child_job_id)
    ELSE <<>>

\* RetryManager.get_retry_chain(job_id), on the records r
GetRetryChain(r, j) == ChainBack(r, j) \o <<j>> \o ChainForward(r, j)

\* the limits a caller of list_jobs passes: the endpoints take limit >= 1
Limits == 1..(MaxListLimit + 1)

\* list_jobs: limit = max(1, min(limit, 1000))
ClampLimit(limit) ==
    LET least == IF limit < MaxListLimit THEN limit ELSE MaxListLimit
    IN IF least > 1 THEN least ELSE 1

\* redis.lrange(JOBS_LIST_KEY, 0, stop): the entries at offsets 0..stop
Lrange0(l, stop) ==
    SubSeq(l, 1, IF stop + 1 < Len(l) THEN stop + 1 ELSE Len(l))

ListedKeepsMissing(r, ids) == ids

RECURSIVE Listed(_, _)
\* the loop of list_jobs: get_job(job_id) for each id in turn, appended to
\* the result when it is truthy; get_job gives None when hgetall finds no
\* record.  The result is given by the ids of its records.
Listed(r, ids) ==
    IF ids = <<>>
    THEN <<>>
    ELSE (IF Head(ids) \in DOMAIN r THEN <<Head(ids)>> ELSE <<>>)
             \o Listed(r, Tail(ids))

\* list_jobs(limit) on the records r and the index l
ListJobs(r, l, limit) == Listed(r, Lrange0(l, ClampLimit(limit) - 1))

\* a call of list_jobs(limit) returns
ListJobsCall(limit) ==
    /\ ret' = [op |-> "list_jobs", id |-> NoJob, ok |-> TRUE, new |-> NoJob,
               limit |-> limit, jobs |-> ListJobs(recs, jobsList, limit)]
    /\ UNCHANGED <<recs, jobsList, wpc, now, calls, issued, semVars, extVars>>

\* the expiry create_job and update_job set on the record (JOB_EXPIRY_SECONDS)
\* runs out: the store drops the record; the index "jobs:all" is another key
\* and keeps the id
Expire(j) ==
    /\ j \in DOMAIN recs
    /\ recs' = DeleteJob(recs, j)
    /\ UNCHANGED <<jobsList, wpc, now, calls, issued, ret, semVars, extVars>>

\* no call of update_job by an outside caller yet
NoUpdate ==
    [id |-> NoJob, args |-> <<>>, again |-> FALSE, n |-> 0, stage |-> "idle"]

\* the keyword arguments of the calls of update_job in the program
UpdateArgs ==
    {[status |-> "running", progress |-> 0],
     [status |-> "error", error |-> "Download failed"],
     [status |-> "done", progress |-> 1000, file_name |-> FileOf("video"),
      file_path |-> PathOf("video")],
     [child_job_id |-> NoJob - 1]}
    \cup {[progress |-> Round1(h), status |-> "running"] : h \in Percents}

\* update_job(j, **updates) called by any caller
UpdateJobCall(j, updates) ==
    /\ upd.n < MaxUpdates
    /\ recs' = UpdateJob(recs, j, updates)
    /\ ret' = UpdateJobRet(recs, j)
    /\ upd' = [id |-> j, args |-> updates,
               again |-> upd.id = j /\ upd.args = updates, n |-> upd.n + 1,
               stage |-> "idle"]
    /\ UNCHANGED <<jobsList, wpc, now, calls, issued, disk, stream, semVars>>

\* redis.hset(key, mapping=...): sets the fields of the hash at the key, and
\* creates the hash when the key holds none
Hset(r, j, mapping) ==
    [k \in DOMAIN r \cup {j} |->
       IF k # j THEN r[k]
       ELSE [f \in (IF j \in DOMAIN r THEN DOMAIN r[j] ELSE {})
                       \cup DOMAIN mapping |->
               IF f \in DOMAIN mapping THEN mapping[f] ELSE r[j][f]]]

\* update_job(j, **updates), first store command: redis.exists; the call
\* returns False without a record, and goes on to its write with one
UpdateJobExists(j, updates) ==
    /\ upd.stage = "idle"
    /\ upd.n < MaxUpdates
    /\ IF j \in DOMAIN recs
       THEN /\ upd' = [id |-> j, args |-> updates, again |-> FALSE,
                       n |-> upd.n, stage |-> "checked"]
            /\ UNCHANGED ret
       ELSE /\ upd' = [id |-> j, args |-> updates, again |-> FALSE,
                       n |-> upd.n + 1, stage |-> "idle"]
            /\ ret' = [op |-> "update_job", id |-> j, ok |-> FALSE,
                       new |-> NoJob]
    /\ UNCHANGED <<recs, jobsList, wpc, now, calls, issued, disk, stream, semVars>>

\* update_job, after the check: updates["updated_at"] = int(time.time()),
\* redis.hset of the updates, redis.expire, return True
UpdateJobHset ==
    /\ upd.stage = "checked"
    /\ recs' = Hset(recs, upd.id,
                    [f \in DOMAIN upd.args \cup {"updated_at"} |->
                       IF f = "updated_at" THEN EpochNow ELSE upd.args[f]])
    /\ ret' = [op |-> "update_job", id |-> upd.id, ok |-> TRUE, new |-> NoJob]
    /\ upd' = [upd EXCEPT !.n = @ + 1, !.stage = "idle"]
    /\ UNCHANGED <<jobsList, wpc, now, calls, issued, disk, stream, semVars>>

\* a second passes
Tick ==
    /\ now < MaxNow
    /\ now' = now + 1
    /\ UNCHANGED <<recs, jobsList, wpc, calls, issued, ret, semVars, extVars>>

\* no outside call yet, an empty downloads directory, no subscriber
ExtInit ==
    /\ upd = NoUpdate
    /\ disk = {}
    /\ stream = [s \in Subs |-> NoStream]

OrchInit ==
    /\ recs = <<>>
    /\ jobsList = <<>>
    /\ wpc = [j \in Jobs |-> "none"]
    /\ now = 0
    /\ calls = [j \in Jobs |-> <<>>]
    /\ issued = 0
    /\ ret = [op |-> "none", id |-> NoJob, ok |-> FALSE, new |-> NoJob]
    /\ ExtInit

\* ------------------------------------------------------------------------
\* Specification of the admission controller under arbitrary callers
\* ------------------------------------------------------------------------

\* DownloadSemaphore.reset() at startup: counter 0, no members, no queue
SemInit ==
    /\ count = 0
    /\ active = {}
    /\ queue = <<>>
    /\ pc = [p \in Procs |-> "idle"]
    /\ job = [p \in Procs |-> NoJob]
    /\ outcome = [p \in Procs |-> "none"]
    /\ held = [p \in Procs |-> NoJob]
    /\ matched = [p \in Procs |-> FALSE]
    /\ usage = 0

Init == SemInit /\ OrchInit

SemNext ==
    \/ \E p \in Procs, j \in Jobs, t \in Timeouts: AcquireIncr(p, j, t)
    \/ \E p \in Procs: AcquireSadd(p)
    \/ \E p \in Procs: AcquireLrem(p)
    \/ \E p \in Procs: AcquireDecr(p)
    \/ \E p \in Procs: AcquireLfrompop(p)
    \/ \E p \in Procs, j \in Jobs: ReleaseSrem(p, j)
    \/ \E p \in Procs: ReleaseDecr(p)
    \/ \E p \in Procs: ReleaseSet(p)

SemSpec == Init /\ [][SemNext]_vars

\* the in-flight steps of the calls are taken eventually (every thread keeps
\* running); whether a caller starts another call is up to the caller
SemFairness ==
    \A p \in Procs:
        WF_vars(AcquireSadd(p) \/ AcquireLrem(p) \/ AcquireDecr(p)
                \/ AcquireLfrompop(p) \/ ReleaseDecr(p) \/ ReleaseSet(p))

SemFairSpec == Init /\ [][SemNext]_vars /\ SemFairness

\* ------------------------------------------------------------------------
\* Specification of the start endpoints and their background tasks
\* ------------------------------------------------------------------------

OrchNext ==
    \/ \E j \in Jobs: StartVideo(j)
    \/ \E j \in Jobs: StartAudio(j)
    \/ \E j \in Jobs: WrapperBegin(j)
    \/ \E j \in Jobs, h \in Percents: FetchProgress(j, h)
    \/ \E j \in Jobs: FetchRaises(j)
    \/ \E j \in Jobs: FetchReturns(j)
    \/ \E j \in Jobs: LocateFound(j, MediaTypeOf(j))
    \/ \E j \in Jobs: LocateNone(j)
    \/ \E j \in Jobs: StallGuard(j)

OrchSpec == Init /\ [][OrchNext]_vars

\* ------------------------------------------------------------------------
\* Specification of the job records under the endpoints that create, retry
\* and delete them; the downloads report no progress and have no subscriber
\* ------------------------------------------------------------------------

JobsNext ==
    \/ \E j \in Jobs: StartVideo(j)
    \/ \E j \in Jobs: StartAudio(j)
    \/ \E j \in Jobs: WrapperBegin(j)
    \/ \E j \in Jobs: FetchRaises(j)
    \/ \E j \in Jobs: FetchReturns(j)
    \/ \E j \in Jobs: LocateFound(j, MediaTypeOf(j))
    \/ \E j \in Jobs: LocateNone(j)
    \/ \E j \in Jobs: DeleteJobEndpoint(j)
    \/ \E j \in Jobs: RetryJob(j)

JobsSpec == Init /\ [][JobsNext]_vars

\* the server runs every background task it was given to its end: a
\* scheduled download_wrapper starts, its fetch ends, its file search ends
JobsFairness ==
    \A j \in Jobs:
        /\ WF_vars(WrapperBegin(j))
        /\ WF_vars(FetchRaises(j) \/ FetchReturns(j))
        /\ WF_vars(LocateFound(j, MediaTypeOf(j)) \/ LocateNone(j))

JobsFairSpec == Init /\ [][JobsNext]_vars /\ JobsFairness

\* the same with the clock running
TimedJobsNext ==
    \/ JobsNext
    \/ Tick

TimedJobsSpec == Init /\ [][TimedJobsNext]_vars

\* ------------------------------------------------------------------------
\* Specification of RetryManager as a set of functions of the stored
\* records: any caller, any job id, on a store that holds one record
\* ------------------------------------------------------------------------

\* the values of the status field
Statuses == {"queued", "running", "done", "error", "cancelled"}

\* the id of the stored record: a record with retries behind it is itself a
\* retry, of a record that was deleted since
StoredId(retry_count) == IF retry_count = 0 THEN 1 ELSE 2

\* the stored record: created by create_job, then brought to its status by
\* update_job
StoredRecord(media_type, st, retry_count) ==
    UpdateJob(
        CreateJob(<<>>, StoredId(retry_count),
                  [type |-> media_type, quality |-> QualityOf(media_type),
                   retry_count |-> retry_count,
                   parent_job_id |-> IF retry_count = 0 THEN NoJob ELSE 1]),
        StoredId(retry_count),
        [status |-> st,
         error |-> IF st = "error" THEN "Download failed" ELSE "",
         file_name |-> IF st = "done" THEN FileOf(media_type) ELSE "",
         file_path |-> IF st = "done" THEN PathOf(media_type) ELSE <<>>,
         progress |-> IF st = "done" THEN 1000 ELSE 0])

\* the files of the stored records r: each record's output file exists
StoredFiles(r) == {AbsPath(r[k].file_path) : k \in {i \in DOMAIN r: r[i].file_path # <<>>}}

RetryInit ==
    /\ SemInit
    /\ now = 0
    /\ \E media_type \in {"video", "audio"}, st \in Statuses,
          retry_count \in 0..MAX_RETRIES:
          /\ recs = StoredRecord(media_type, st, retry_count)
          /\ jobsList = <<StoredId(retry_count)>>
          /\ issued = StoredId(retry_count)
          /\ disk = StoredFiles(StoredRecord(media_type, st, retry_count))
    /\ wpc = [j \in Jobs |-> "none"]
    /\ calls = [j \in Jobs |-> <<>>]
    /\ ret = [op |-> "none", id |-> NoJob, ok |-> FALSE, new |-> NoJob]
    /\ upd = NoUpdate
    /\ stream = [s \in Subs |-> NoStream]

RetryNext ==
    \/ \E j \in Jobs: CanRetryCall(j)
    \/ \E j \in Jobs: CreateRetryJob(j)
    \/ \E j \in Jobs: RetryJob(j)

RetrySpec == RetryInit /\ [][RetryNext]_vars

\* ------------------------------------------------------------------------
\* Specification of one stored job: its download, if it has one under way,
\* its progress streams and its deletion
\* ------------------------------------------------------------------------

\* where download_wrapper of a job stands when its record has status st: a
\* record in status queued waits for its background task, one in status
\* cancelled has none
WrapperAt(st) ==
    CASE st = "queued" -> "scheduled"
      [] st = "running" -> "downloading"
      [] st \in {"done", "error"} -> "finished"
      [] OTHER -> "none"

\* the calls download_wrapper has made when its record has status st
WrapperCallsAt(st) ==
    CASE st = "running" -> <<"update_job", "download">>
      [] st = "done" -> <<"update_job", "download", "find_latest_download",
                          "update_job">>
      [] st = "error" -> <<"update_job", "download", "error_cb">>
      [] OTHER -> <<>>

StoredJobInit ==
    /\ SemInit
    /\ now = 0
    /\ \E media_type \in {"video", "audio"}, st \in Statuses:
          /\ recs = StoredRecord(media_type, st, 0)
          /\ disk = StoredFiles(StoredRecord(media_type, st, 0))
          /\ wpc = [j \in Jobs |-> IF j = StoredId(0) THEN WrapperAt(st) ELSE "none"]
          /\ calls = [j \in Jobs |-> IF j = StoredId(0) THEN WrapperCallsAt(st)
                                     ELSE <<>>]
    /\ jobsList = <<StoredId(0)>>
    /\ issued = StoredId(0)
    /\ ret = [op |-> "none", id |-> NoJob, ok |-> FALSE, new |-> NoJob]
    /\ upd = NoUpdate
    /\ stream = [s \in Subs |-> NoStream]

StreamNext ==
    \/ \E j \in Jobs: WrapperBegin(j)
    \/ \E j \in Jobs, h \in Percents: FetchProgress(j, h)
    \/ \E j \in Jobs: FetchRaises(j)
    \/ \E j \in Jobs: FetchReturns(j)
    \/ \E j \in Jobs: LocateFound(j, MediaTypeOf(j))
    \/ \E j \in Jobs: LocateNone(j)
    \/ \E s \in Subs, j \in Jobs: Subscribe(s, j)
    \/ \E s \in Subs: StreamTick(s)
    \/ \E s \in Subs: Disconnect(s)
    \/ \E j \in Jobs: DeleteJobEndpoint(j)

StreamSpec == StoredJobInit /\ [][StreamNext]_vars

\* the server keeps iterating a generator whose client is connected
StreamFairness == \A s \in Subs: WF_vars(StreamTick(s))

\* the same steps with one client: only the first subscriber connects
SoloStreamNext ==
    \/ \E j \in Jobs: WrapperBegin(j)
    \/ \E j \in Jobs, h \in Percents: FetchProgress(j, h)
    \/ \E j \in Jobs: FetchRaises(j)
    \/ \E j \in Jobs: FetchReturns(j)
    \/ \E j \in Jobs: LocateFound(j, MediaTypeOf(j))
    \/ \E j \in Jobs: LocateNone(j)
    \/ \E j \in Jobs: Subscribe("first", j)
    \/ StreamTick("first")
    \/ Disconnect("first")
    \/ \E j \in Jobs: DeleteJobEndpoint(j)

StreamFairSpec == StoredJobInit /\ [][SoloStreamNext]_vars /\ StreamFairness

\* ------------------------------------------------------------------------
\* Specification of delete_job_endpoint as a function of the stored record
\* and of the files: any caller, any job id, on a store that holds one
\* record, whose file_path is any text
\* ------------------------------------------------------------------------

\* the values of file_path in the stored record: none, an output file, a
\* file in a directory next to the downloads directory whose name starts
\* with its name, a file elsewhere, a path that leaves the downloads
\* directory through ".."
StoredPaths ==
    {<<>>,
     PathOf("video"),
     <<"/", "app", "/", "downloads", "_old", "/", "video_x.mp4">>,
     <<"/", "etc", "/", "passwd">>,
     DOWNLOAD_DIR \o <<"/", "..", "/", "logs", "/", "app.log">>}

DeleteInit ==
    /\ SemInit
    /\ now = 0
    /\ \E st \in Statuses, file_path \in StoredPaths, there \in BOOLEAN:
          /\ recs = UpdateJob(StoredRecord("video", st, 0), StoredId(0),
                              [file_path |-> file_path])
          /\ disk = {PathOf("audio")}
                      \cup (IF there /\ file_path # <<>>
                            THEN {AbsPath(file_path)} ELSE {})
    /\ jobsList = <<StoredId(0)>>
    /\ issued = StoredId(0)
    /\ wpc = [j \in Jobs |-> "none"]
    /\ calls = [j \in Jobs |-> <<>>]
    /\ ret = [op |-> "none", id |-> NoJob, ok |-> FALSE, new |-> NoJob]
    /\ upd = NoUpdate
    /\ stream = [s \in Subs |-> NoStream]

DeleteNext == \E j \in Jobs: DeleteJobEndpoint(j)

DeleteSpec == DeleteInit /\ [][DeleteNext]_vars

\* ------------------------------------------------------------------------
\* Specification of update_job as a function of the stored records and of
\* the clock: any caller, any job id, on a store that holds two records
\* ------------------------------------------------------------------------

UpdateInit ==
    /\ SemInit
    /\ now = 0
    /\ \E media_type \in {"video", "audio"}, st \in Statuses:
          /\ recs = CreateJob(StoredRecord(media_type, st, 0), StoredId(0) + 1,
                              [type |-> "audio", quality |-> QualityOf("audio"),
                               created_at |-> IsoNow])
          /\ disk = StoredFiles(StoredRecord(media_type, st, 0))
    /\ jobsList = <<StoredId(0) + 1, StoredId(0)>>
    /\ issued = StoredId(0) + 1
    /\ wpc = [j \in Jobs |-> "none"]
    /\ calls = [j \in Jobs |-> <<>>]
    /\ ret = [op |-> "none", id |-> NoJob, ok |-> FALSE, new |-> NoJob]
    /\ upd = NoUpdate
    /\ stream = [s \in Subs |-> NoStream]

UpdateNext ==
    \/ \E j \in Jobs, updates \in UpdateArgs: UpdateJobCall(j, updates)
    \/ Tick

UpdateSpec == UpdateInit /\ [][UpdateNext]_vars

\* ------------------------------------------------------------------------
\* Specification of update_job, store command by store command, beside
\* delete_job_endpoint
\* ------------------------------------------------------------------------

RaceNext ==
    \/ \E j \in Jobs, updates \in UpdateArgs: UpdateJobExists(j, updates)
    \/ UpdateJobHset
    \/ \E j \in Jobs: DeleteJobEndpoint(j)

RaceSpec == UpdateInit /\ [][RaceNext]_vars

\* ------------------------------------------------------------------------
\* Specification of the download of one stored job on a store that may fail
\* ------------------------------------------------------------------------

FaultNext ==
    \/ \E j \in Jobs: WrapperBegin(j)
    \/ \E j \in Jobs, h \in Percents: FetchProgress(j, h)
    \/ \E j \in Jobs: ProgressCbWriteFails(j)
    \/ \E j \in Jobs: FetchRaises(j)
    \/ \E j \in Jobs: FetchReturns(j)
    \/ \E j \in Jobs: LocateFound(j, MediaTypeOf(j))
    \/ \E j \in Jobs: LocateNone(j)
    \/ \E j \in Jobs: ErrorCbWriteFails(j)
    \/ Tick

FaultSpec == StoredJobInit /\ [][FaultNext]_vars

\* ------------------------------------------------------------------------
\* Specification of create_retry_job with overrides, as a function of the
\* stored record
\* ------------------------------------------------------------------------

OverrideNext ==
    \E j \in Jobs, new_params \in Overrides, stored \in BOOLEAN:
        CreateRetryJobWith(j, new_params, stored)

OverrideSpec == RetryInit /\ [][OverrideNext]_vars

\* ------------------------------------------------------------------------
\* Specification of list_jobs over records that are created, deleted and
\* that expire
\* ------------------------------------------------------------------------

ListNext ==
    \/ \E j \in Jobs: StartVideo(j)
    \/ \E j \in Jobs: StartAudio(j)
    \/ \E j \in Jobs: Expire(j)
    \/ \E j \in Jobs: DeleteJobEndpoint(j)
    \/ \E limit \in Limits: ListJobsCall(limit)

ListSpec == Init /\ [][ListNext]_vars

\* ------------------------------------------------------------------------
\* Properties of the admission controller
\* ------------------------------------------------------------------------

AcquireLabels == {"acq_sadd", "acq_lrem", "acq_decr", "acq_lfrompop"}

ReleaseLabels == {"rel_decr", "rel_set"}

\* process p's acquire call ends in this step
AcquireEnds(p) == pc[p] \in AcquireLabels /\ pc'[p] = "idle"

\* process p's release call ends in this step
ReleaseEnds(p) == pc[p] \in ReleaseLabels /\ pc'[p] = "idle"

InQueue(q, j) == \E i \in DOMAIN q: q[i] = j

\* C1: whenever no call is in flight, the stored counter is at most the
\* limit and equals the number of members of the active set, for every
\* sequence of acquire and release calls (any ids, matched or not).
C1_AdmissionBound ==
    Quiescent =>
        /\ count <= MAX_CONCURRENT_DOWNLOADS
        /\ count = Cardinality(active)

\* C2: as long as every release gives back a grant (called after its acquire
\* returned granted, once per grant), the number of grants handed out and not
\* yet released never exceeds the limit, under every interleaving.
C2_GrantsWithinLimit ==
    WellFormed => Cardinality(Holders) <= MAX_CONCURRENT_DOWNLOADS

\* C2 witness: the limit is reached by well-behaved callers while a further
\* acquire has overshot the counter.
C2_Witness ==
    /\ WellFormed
    /\ Cardinality(Holders) = MAX_CONCURRENT_DOWNLOADS
    /\ \E p \in Procs: pc[p] = "acq_decr"

\* C3: when a release call returns, the stored counter is not below 0, also
\* for releases with no matching grant; and in every state of the ledger,
\* also between a decrement and its clamp, get_status reports neither a
\* negative active count nor negative available_slots.
C3_NoNegativeLedger ==
    /\ [][\A p \in Procs: ReleaseEnds(p) => count' >= 0]_vars
    /\ [](GetStatus.active >= 0 /\ GetStatus.available_slots >= 0)

\* C3 witness: an unmatched release that clamped has returned and another is
\* between its decrement and its clamp, with the stored counter negative.
C3_Witness ==
    /\ ~WellFormed
    /\ \E p \in Procs: pc[p] = "idle" /\ outcome[p] = "released"
    /\ \E q \in Procs: pc[q] = "rel_set"
    /\ count < 0

\* C4: no increment of an acquire is lost to a concurrent release: when all
\* calls have returned and every unmatched release found nothing to take back
\* (its decrement went below 0 and was clamped), the counter equals the
\* number of jobs holding a slot.
C4_ClampKeepsIncrement ==
    (Quiescent /\ NothingStolen) => count = Cardinality(Holders)

\* C6: an acquire that finds the counter above the limit ends only as granted
\* or timed_out, never in another outcome, and the queue never holds the same
\* job id twice.
C6_RetryUntilGrantedOrTimedOut ==
    /\ \A p \in Procs: outcome[p] \in {"none", "granted", "timed_out", "released"}
    /\ \A i, k \in DOMAIN queue: queue[i] = queue[k] => i = k

\* C7: Scenario A, with distinct job ids, every release giving back a grant
\* and one call at a time: with the limit reached by the holders, an acquire
\* for a further job ends timed_out and leaves a job in the queue; and an
\* acquire that ends granted leaves its job in the active set and out of the
\* queue.
C7_ScenarioA ==
    [][\A p \in Procs:
          (/\ AcquireEnds(p)
           /\ DistinctIds'
           /\ \A q \in Procs \ {p}: pc[q] = "idle")
          => /\ Cardinality(Holders) = MAX_CONCURRENT_DOWNLOADS
                  => outcome'[p] = "timed_out" /\ queue' # <<>>
             /\ outcome'[p] = "granted"
                  => job[p] \in active' /\ ~InQueue(queue', job[p])]_vars

\* C8: with well-behaved callers, if fewer than the limit hold a slot and an
\* acquire that overshot is still in flight, then eventually some acquire is
\* being granted.
C8_NoDeadlock ==
    \A p \in Procs:
        (/\ pc[p] \in {"acq_decr", "acq_lfrompop"}
         /\ Cardinality(Holders) < MAX_CONCURRENT_DOWNLOADS
         /\ WellFormed)
          ~> (~WellFormed \/ \E q \in Procs: pc[q] \in {"acq_sadd", "acq_lrem"})

\* ------------------------------------------------------------------------
\* Properties of the orchestration wrapper
\* ------------------------------------------------------------------------

InSeq(q, x) == \E i \in DOMAIN q: q[i] = x

CountIn(q, x) == Cardinality({i \in DOMAIN q: q[i] = x})

\* the records in status running whose background task has not finished
RunningLive ==
    {j \in DOMAIN recs: recs[j].status = "running" /\ wpc[j] # "finished"}

\* C9: a record in status running belongs to a job for which the wrapper
\* called acquire and was granted a slot, so at most the limit of records
\* driven by live workers are in status running.
C9_RunningHoldsSlot ==
    /\ \A j \in DOMAIN recs:
          recs[j].status = "running" => InSeq(calls[j], "acquire")
    /\ Cardinality(RunningLive) <= MAX_CONCURRENT_DOWNLOADS

\* C10: when the wrapper of a job has finished, it has released the job's
\* admission slot exactly once, and the job id is not in the active set.
C10_SlotReleasedOnce ==
    \A j \in Jobs:
        wpc[j] = "finished" =>
            /\ CountIn(calls[j], "release") = 1
            /\ j \notin active

\* ------------------------------------------------------------------------
\* Properties of the job records
\* ------------------------------------------------------------------------

\* check_queue_status(): active + queued of get_status below the capacity.
\* No endpoint calls it.
CheckQueueStatus == GetStatus.active + GetStatus.queued < MAX_QUEUE_SIZE

\* the terminal values of the status field
Terminal == {"done", "error", "cancelled"}

\* the records that are not in a terminal status
Pending == {j \in DOMAIN recs: recs[j].status \notin Terminal}

\* C11: the start endpoints admit a request only below the capacity, so the
\* number of records that are not in a terminal status never exceeds
\* MAX_QUEUE_SIZE.
C11_QueueBackpressure ==
    Cardinality(Pending) <= MAX_QUEUE_SIZE

\* the status transitions of a record's life cycle
Transitions ==
    {<<"queued", "running">>, <<"running", "running">>, <<"running", "done">>,
     <<"running", "error">>, <<"queued", "cancelled">>,
     <<"running", "cancelled">>}

\* C12: every change of a record's status is one of queued->running,
\* running->done, running->error, queued|running->cancelled; in particular a
\* record in status done, error or cancelled keeps its status.
C12_TerminalIsFinal ==
    [][\A j \in DOMAIN recs \cap DOMAIN recs':
          recs'[j].status # recs[j].status
             => <<recs[j].status, recs'[j].status>> \in Transitions]_vars

\* C13: the error field of a record is non-empty only if its status is
\* error.
C13_ErrorOnlyInError ==
    \A j \in DOMAIN recs: recs[j].error # "" => recs[j].status = "error"

\* C14: across a write that leaves a record in status running, its progress
\* does not decrease.
C14_ProgressMonotone ==
    [][\A j \in DOMAIN recs \cap DOMAIN recs':
          (recs[j].status = "running" /\ recs'[j].status = "running")
             => recs'[j].progress >= recs[j].progress]_vars

\* the steps of download_wrapper for job j that call update_job(j, ...)
WrapperUpdates(j) ==
    \/ WrapperBegin(j)
    \/ FetchRaises(j)
    \/ LocateFound(j, MediaTypeOf(j))
    \/ LocateNone(j)

\* C15: update_job on a job id that has no record returns False and changes
\* neither the records (it creates none) nor the recency index.
C15_UpdateMissingIsNoop ==
    [][\A j \in Jobs:
          (WrapperUpdates(j) /\ j \notin DOMAIN recs)
             => /\ ret'.op = "update_job" /\ ret'.id = j /\ ~ret'.ok
                /\ recs' = recs
                /\ jobsList' = jobsList]_vars

\* C15 witness: the record of a job was deleted before its wrapper started,
\* and the wrapper's first update_job returned False.
C15_Witness ==
    \E j \in Jobs:
        /\ wpc[j] = "downloading"
        /\ j \notin DOMAIN recs
        /\ ret = [op |-> "update_job", id |-> j, ok |-> FALSE, new |-> NoJob]

\* C16: a record that create_job has just written has status queued,
\* progress 0, empty error and file fields and no child link, retry_count 0
\* and no parent link unless it is a retry, created_at and updated_at both
\* equal to the time of the creation, and its id at the front of the recency
\* index.
C16_CreateDefaults ==
    [][\A j \in DOMAIN recs' \ DOMAIN recs:
          /\ recs'[j].status = "queued"
          /\ recs'[j].progress = 0
          /\ recs'[j].error = "" /\ recs'[j].file_name = ""
          /\ recs'[j].file_path = <<>>
          /\ recs'[j].child_job_id = NoJob
          /\ recs'[j].parent_job_id = NoJob => recs'[j].retry_count = 0
          /\ recs'[j].created_at = EpochNow
          /\ recs'[j].updated_at = EpochNow
          /\ jobsList' # <<>> /\ Head(jobsList') = j]_vars

\* job_id has a record in status error or cancelled with retry_count below
\* MAX_RETRIES
RetryAllowed(j) ==
    /\ j \in DOMAIN recs
    /\ recs[j].status \in {"error", "cancelled"}
    /\ recs[j].retry_count < MAX_RETRIES

\* C17: can_retry(job_id) is true exactly when job_id has a record, the
\* record's status is error or cancelled, and its retry_count is below
\* MAX_RETRIES; so is what a call of can_retry returned.
C17_CanRetryIff ==
    /\ \A j \in Jobs: CanRetry(recs, j) <=> RetryAllowed(j)
    /\ ret.op = "can_retry" => (ret.ok <=> RetryAllowed(ret.id))

\* C17 witness: can_retry returned True for a cancelled record with one
\* retry left.
C17_Witness ==
    /\ ret.op = "can_retry" /\ ret.ok
    /\ ret.id \in DOMAIN recs
    /\ recs[ret.id].status = "cancelled"
    /\ recs[ret.id].retry_count = MAX_RETRIES - 1

\* C18: create_retry_job(job_id) returns None and creates no record whenever
\* can_retry(job_id) is false.
C18_NoRetryUnlessCanRetry ==
    [][\A j \in Jobs:
          (CreateRetryJob(j) /\ ~CanRetry(recs, j))
             => ~ret'.ok /\ recs' = recs /\ jobsList' = jobsList]_vars

\* C19: when create_retry_job(job_id) returns an id, the id is fresh, its
\* record has retry_count one above the original's, the original as parent,
\* status queued, progress 0 and empty file and error fields, and the
\* original's child link is the new id.
C19_RetryRecord ==
    [][\A j \in Jobs:
          (CreateRetryJob(j) /\ ret'.ok)
             => LET n == ret'.new
                IN /\ n \notin DOMAIN recs /\ n > issued
                   /\ n \in DOMAIN recs'
                   /\ recs'[n].retry_count = recs[j].retry_count + 1
                   /\ recs'[n].parent_job_id = j
                   /\ recs'[n].status = "queued"
                   /\ recs'[n].progress = 0
                   /\ recs'[n].file_name = "" /\ recs'[n].file_path = <<>>
                   /\ recs'[n].error = ""
                   /\ recs'[j].child_job_id = n]_vars

\* C19 witness: a retry of a retry was created, the original has it as its
\* child.
C19_Witness ==
    /\ ret.op = "create_retry_job" /\ ret.ok
    /\ ret.new \in DOMAIN recs /\ ret.id \in DOMAIN recs
    /\ recs[ret.id].parent_job_id \in DOMAIN recs
    /\ recs[ret.id].child_job_id = ret.new

\* C20: no record ever has retry_count above MAX_RETRIES, and
\* create_retry_job on a record whose retry_count is MAX_RETRIES returns None
\* and creates nothing.
C20_RetryBudget ==
    /\ [](\A j \in DOMAIN recs: recs[j].retry_count <= MAX_RETRIES)
    /\ [][\A j \in DOMAIN recs:
            (CreateRetryJob(j) /\ recs[j].retry_count = MAX_RETRIES)
               => ~ret'.ok /\ recs' = recs]_vars

\* C20 witness: create_retry_job returned None for a retry that has used up
\* the budget and whose original is still stored.
C20_Witness ==
    /\ ret.op = "create_retry_job" /\ ~ret.ok
    /\ ret.id \in DOMAIN recs
    /\ recs[ret.id].retry_count = MAX_RETRIES
    /\ recs[ret.id].parent_job_id \in DOMAIN recs

\* ------------------------------------------------------------------------
\* Properties of the retry lineage
\* ------------------------------------------------------------------------

RECURSIVE RootOf(_, _)
\* the first record of the lineage of j: the one reached by parent links
RootOf(r, j) ==
    IF j \in DOMAIN r /\ r[j].parent_job_id # NoJob
    THEN RootOf(r, r[j].parent_job_id)
    ELSE j

\* the records of the lineage of j
Lineage(r, j) == {k \in DOMAIN r: RootOf(r, k) = RootOf(r, j)}

\* C21: the parent and child links of the records form simple paths: no
\* record is the parent of two records, r.child_job_id = c exactly when
\* c.parent_job_id = r for existing records r and c, and get_retry_chain from
\* any record lists every record of its lineage, each once.
C21_LineageIsPath ==
    /\ \A a \in DOMAIN recs, b \in DOMAIN recs:
           (a # b /\ recs[a].parent_job_id # NoJob)
               => recs[a].parent_job_id # recs[b].parent_job_id
    /\ \A a \in DOMAIN recs, c \in DOMAIN recs:
           recs[a].child_job_id = c <=> recs[c].parent_job_id = a
    /\ \A j \in DOMAIN recs:
           LET chain == GetRetryChain(recs, j)
           IN /\ Lineage(recs, j) \subseteq {chain[i] : i \in DOMAIN chain}
              /\ \A i \in DOMAIN chain, k \in DOMAIN chain:
                     chain[i] = chain[k] => i = k

\* ------------------------------------------------------------------------
\* Properties of download_wrapper and of its callbacks
\* ------------------------------------------------------------------------

\* download_wrapper of job j reported an error through error_cb
ReportedError(j) == \E i \in DOMAIN calls[j]: calls[j][i] = "error_cb"

C23_CallbacksSwallow ==
    [][\A j \in Jobs:
          /\ ProgressCbWriteFails(j)
                => ret'.ok /\ recs' = recs /\ wpc'[j] = "downloading"
          /\ ErrorCbWriteFails(j)
                => ret'.ok /\ recs' = recs]_vars

\* a write of progress_cb has failed during a download that had reported
\* 25.5 percent: the record still says so and the download is under way
C23_Witness ==
    /\ ret.op = "progress_cb"
    /\ ret.ok
    /\ wpc[ret.id] = "downloading"
    /\ recs[ret.id].status = "running"
    /\ recs[ret.id].progress = Round1(2550)

\* ------------------------------------------------------------------------
\* Properties of the progress streams
\* ------------------------------------------------------------------------

\* C24: every progress stream ends: it makes at most MaxIterations polls
\* whatever the record does, a stream that is polling ends up closed, and a
\* stream that ends because its polls are used up has sent the timeout
\* error as its last event.
C24_StreamTerminates ==
    /\ [](\A s \in Subs:
            /\ stream[s].iteration <= MaxIterations
            /\ stream[s].stop = "ceiling"
                 => stream[s].last = ErrorEvent("Timeout"))
    /\ \A s \in Subs:
           (stream[s].state = "polling") ~> (stream[s].state = "closed")

\* a stream has used up its polls on a record that stayed queued, and sent
\* the timeout
C24_Witness ==
    \E s \in Subs:
        /\ stream[s].stop = "ceiling"
        /\ stream[s].iteration = MaxIterations
        /\ stream[s].job \in DOMAIN recs
        /\ recs[stream[s].job].status = "queued"
        /\ stream[s].last = ErrorEvent("Timeout")

C27_DeleteUnlessRunning ==
    [][\A j \in Jobs:
          (DeleteJobEndpoint(j) /\ j \in DOMAIN recs)
              => IF recs[j].status = "running"
                 THEN /\ recs' = recs
                      /\ jobsList' = jobsList
                      /\ disk' = disk
                      /\ ~ret'.ok
                 ELSE /\ j \notin DOMAIN recs'
                      /\ ~InSeq(jobsList', j)
                      /\ \A k \in DOMAIN recs \ {j}:
                             k \in DOMAIN recs' /\ recs'[k] = recs[k]
                      /\ ret'.ok]_vars

\* a finished job was deleted although its file could not be removed
C27_Witness ==
    /\ ret.op = "delete_job_endpoint"
    /\ ret.ok
    /\ ret.id \notin DOMAIN recs
    /\ ~InSeq(jobsList, ret.id)
    /\ wpc[ret.id] = "finished"
    /\ PathOf("video") \in disk

\* the file of the absolute path abs is in the downloads directory
InsideDownloads(abs) == StartsWith(abs, AbsPath(DOWNLOAD_DIR) \o <<"/">>)

\* C28: delete_job_endpoint on a record whose file_path is, once made
\* absolute, outside the downloads directory removes no file and does not
\* answer "deleted".
C28_NoDeleteOutside ==
    [][\A j \in Jobs:
          (/\ DeleteJobEndpoint(j)
           /\ j \in DOMAIN recs
           /\ recs[j].file_path # <<>>
           /\ ~InsideDownloads(AbsPath(recs[j].file_path)))
              => disk' = disk /\ ~ret'.ok]_vars

\* ------------------------------------------------------------------------
\* Properties of update_job
\* ------------------------------------------------------------------------

\* C29: update_job on an existing record sets the fields named in the call
\* and updated_at; the record's other fields, the other records and the
\* recency index are as before.
C29_UpdateFrame ==
    [][\A j \in Jobs, updates \in UpdateArgs:
          (UpdateJobCall(j, updates) /\ j \in DOMAIN recs)
              => /\ DOMAIN recs' = DOMAIN recs
                 /\ \A k \in DOMAIN recs \ {j}: recs'[k] = recs[k]
                 /\ DOMAIN recs'[j]
                      = DOMAIN recs[j] \cup DOMAIN updates \cup {"updated_at"}
                 /\ \A f \in DOMAIN updates: recs'[j][f] = updates[f]
                 /\ recs'[j].updated_at = EpochNow
                 /\ \A f \in DOMAIN recs[j] \ (DOMAIN updates \cup {"updated_at"}):
                        recs'[j][f] = recs[j][f]
                 /\ jobsList' = jobsList]_vars

\* update_job has set the status and the error of one of two records a
\* second after the records were created
C29_Witness ==
    /\ upd.id \in DOMAIN recs
    /\ upd.args = [status |-> "error", error |-> "Download failed"]
    /\ recs[upd.id].status = "error"
    /\ recs[upd.id].error = "Download failed"
    /\ recs[upd.id].updated_at = <<"epoch", 1>>
    /\ recs[upd.id].created_at[2] = 0
    /\ \E k \in DOMAIN recs: k # upd.id /\ recs[k].updated_at = <<"epoch", 0>>

\* C30: update_job called again with the same arguments on an existing
\* record leaves every field but updated_at as the first call left it.
C30_UpdateIdempotent ==
    [][\A j \in Jobs, updates \in UpdateArgs:
          (/\ UpdateJobCall(j, updates)
           /\ j \in DOMAIN recs
           /\ upd.id = j /\ upd.args = updates)
              => /\ DOMAIN recs' = DOMAIN recs
                 /\ \A k \in DOMAIN recs \ {j}: recs'[k] = recs[k]
                 /\ DOMAIN recs'[j] = DOMAIN recs[j]
                 /\ \A f \in DOMAIN recs[j] \ {"updated_at"}:
                        recs'[j][f] = recs[j][f]]_vars

\* update_job was called twice in a row with the same progress on an
\* existing record, the second time a second after the first
C30_Witness ==
    /\ upd.again
    /\ upd.id \in DOMAIN recs
    /\ upd.args = [progress |-> Round1(2550), status |-> "running"]
    /\ recs[upd.id].progress = Round1(2550)
    /\ recs[upd.id].updated_at = <<"epoch", 1>>

\* ------------------------------------------------------------------------
\* Properties of create_retry_job, get_retry_chain and list_jobs
\* ------------------------------------------------------------------------

\* C31: a create_retry_job that creates a retry leaves every field of the
\* original record but child_job_id and updated_at as it was.
C31_RetryKeepsOriginal ==
    [][\A j \in Jobs:
          (CreateRetryJob(j) /\ ret'.ok)
              => /\ j \in DOMAIN recs'
                 /\ DOMAIN recs'[j] = DOMAIN recs[j]
                 /\ \A f \in DOMAIN recs[j] \ {"child_job_id", "updated_at"}:
                        recs'[j][f] = recs[j][f]
                 /\ recs'[j].child_job_id = ret'.new]_vars

\* a failed job was retried: it is still in status error with its error
\* message, and names the retry as its child
C31_Witness ==
    /\ ret.op = "create_retry_job"
    /\ ret.ok
    /\ recs[ret.id].status = "error"
    /\ recs[ret.id].error = "Download failed"
    /\ recs[ret.id].child_job_id = ret.new
    /\ recs[ret.new].status = "queued"

\* C32: create_retry_job with overrides, on a record with retries left,
\* creates a record in which each request parameter named in the overrides
\* has the override's value and each other request parameter has the
\* original's value.
C32_OverridesMerge ==
    [][\A j \in Jobs, new_params \in Overrides, stored \in BOOLEAN:
          (/\ CreateRetryJobWith(j, new_params, stored)
           /\ j \in DOMAIN recs
           /\ ~RetryBudgetSpent(recs[j].retry_count))
              => /\ ret'.ok
                 /\ ret'.new \in DOMAIN recs'
                 /\ \A f \in RequestFields:
                        recs'[ret'.new][f] = IF f \in DOMAIN new_params
                                             THEN new_params[f]
                                             ELSE recs[j][f]]_vars

\* every parent and child link names a stored record: no record of a
\* lineage has been deleted
LinksStored(r) ==
    \A j \in DOMAIN r:
        /\ r[j].parent_job_id # NoJob => r[j].parent_job_id \in DOMAIN r
        /\ r[j].child_job_id # NoJob => r[j].child_job_id \in DOMAIN r

\* C33: while no record of a lineage is deleted, get_retry_chain gives the
\* same sequence from every record of a lineage; the sequence starts at the
\* record with no parent, each next entry is a retry of the one before, and
\* it holds every record of the lineage exactly once.
C33_ChainSameFromAnyMember ==
    LinksStored(recs)
        => \A j \in DOMAIN recs:
               LET chain == GetRetryChain(recs, j)
               IN /\ \A k \in Lineage(recs, j):
                         GetRetryChain(recs, k) = chain
                  /\ {chain[i] : i \in DOMAIN chain} = Lineage(recs, j)
                  /\ Len(chain) = Cardinality(Lineage(recs, j))
                  /\ recs[chain[1]].parent_job_id = NoJob
                  /\ \A i \in 2..Len(chain):
                         recs[chain[i]].parent_job_id = chain[i - 1]

\* C34: list_jobs(limit) returns without an error at
\* most limit records, all of them stored, later created records (ids are
\* issued in the order of creation) before earlier ones, and leaves out of
\* the ids it read from the index only those whose record is not stored.
C34_ListRecentFirst ==
    [][\A limit \in Limits:
          ListJobsCall(limit)
              => LET jobs == ret'.jobs
                 IN /\ ret'.ok
                    /\ Len(jobs) <= limit
                    /\ \A i \in DOMAIN jobs: jobs[i] \in DOMAIN recs
                    /\ \A i \in DOMAIN jobs, k \in DOMAIN jobs:
                           i < k => jobs[i] > jobs[k]
                    /\ \A i \in DOMAIN jobsList:
                           (i <= ClampLimit(limit) /\ jobsList[i] \in DOMAIN recs)
                               => \E k \in DOMAIN jobs: jobs[k] = jobsList[i]]_vars

\* list_jobs(2) has read two ids of which the newer has no record, and has
\* returned the older one alone
C34_Witness ==
    /\ ret.op = "list_jobs"
    /\ ret.limit = 2
    /\ Len(jobsList) >= 2
    /\ jobsList[1] \notin DOMAIN recs
    /\ jobsList[2] \in DOMAIN recs
    /\ ret.jobs = <<jobsList[2]>>

\* ------------------------------------------------------------------------
\* Properties of the events of the progress stream
\* ------------------------------------------------------------------------

\* the positions of the progress events among the events ev
ProgressEventsOf(ev) == {i \in DOMAIN ev: ev[i][1] = "data"}

\* the positions of the error events among the events ev
ErrorEventsOf(ev) == {i \in DOMAIN ev: ev[i][1] = "data:ERROR"}

\* C35: a pass of the stream that finds the record sends a progress event
\* exactly when the record's progress differs from the progress of the last
\* progress event the stream sent (the first pass always sends one); the
\* event carries the file name exactly when progress is at least 100 and
\* file_name is not empty; a pass that finds no record sends the not-found
\* error event first and closes the stream.
C35_ProgressEvents ==
    [][\A s \in Subs:
          StreamTick(s)
              => LET j == stream[s].job
                     ev == stream'[s].events
                 IN IF j \in DOMAIN recs
                    THEN /\ (ProgressEventsOf(ev) # {})
                               <=> (\/ stream[s].iteration = 0
                                    \/ stream[s].last[1] # "data"
                                    \/ stream[s].last[2] # recs[j].progress)
                         /\ \A i \in ProgressEventsOf(ev):
                                /\ i = 1
                                /\ ev[i][2] = recs[j].progress
                                /\ ev[i][3] = IF recs[j].progress >= 1000
                                                 /\ recs[j].file_name # ""
                                              THEN recs[j].file_name ELSE ""
                    ELSE /\ ev # <<>>
                         /\ ev[1] = ErrorEvent("Job not found")
                         /\ ProgressEventsOf(ev) = {}
                         /\ stream'[s].state = "closed"]_vars

\* a stream past its first pass has made a pass that sent nothing, and
\* another stream has sent a progress event with the file name
C35_Witness ==
    /\ \E s \in Subs:
          /\ stream[s].state = "polling"
          /\ stream[s].iteration >= 2
          /\ stream[s].events = <<>>
    /\ \E s \in Subs:
          /\ stream[s].events # <<>>
          /\ stream[s].events[1] = ProgressEvent(1000, FileOf("video"))

\* C36: the stall guard of a stream marks a record failed only in a pass
\* that is at least the (stall window + 1)-th pass in a row to read the
\* record running with progress 0: never in the first pass that reads the
\* record running after passes that read it queued.
C36_StallOnlyAfterWindow ==
    [][\A s \in Subs:
          (StreamTick(s) /\ stream'[s].stop = "stalled")
              => stream'[s].idle > StallIterations]_vars

\* C37: the passes of a stream send at most one error event, and the
\* timeout event is sent only by a stream that ended because it ran out of
\* passes, never by one that ended on a break.
C37_OneTerminalEvent ==
    \A s \in Subs:
        LET ev == stream[s].events
        IN /\ Cardinality(ErrorEventsOf(ev)) <= 1
           /\ (\E i \in DOMAIN ev: ev[i] = ErrorEvent("Timeout"))
                  => stream[s].stop = "ceiling"

\* ------------------------------------------------------------------------
\* Properties of update_job beside delete_job
\* ------------------------------------------------------------------------

\* C38: whenever no call of update_job is between its check and its write,
\* every record in the store has all the fields create_job writes: the
\* store never holds a record made of the fields of an update alone.
C38_NoPartialRecord ==
    upd.stage = "idle"
        => \A j \in DOMAIN recs:
               DOMAIN CreateJob(<<>>, j, <<>>)[j] \subseteq DOMAIN recs[j]

\* ------------------------------------------------------------------------
\* Progress of queued records
\* ------------------------------------------------------------------------

\* C40: when the server runs its background tasks, every record in status
\* queued, created by a start request or by retry_job, later has another
\* status or is deleted.
C40_QueuedLeavesQueued ==
    \A j \in Jobs:
        (j \in DOMAIN recs /\ recs[j].status = "queued")
            ~> (j \notin DOMAIN recs \/ recs[j].status # "queued")

====
